---- MODULE Spec2Model ----
(***************************************************************************)
(* Virtual Product Mock Server (src/main.py): a FastAPI application with   *)
(* three routes (GET /ping, GET /products, POST /purchase), an API key     *)
(* check, an optional artificial delay and an idempotency cache keyed by   *)
(* transaction_id.                                                         *)
(*                                                                         *)
(* The process is one asyncio event loop: a coroutine runs without         *)
(* interruption between two awaits.  delay_middleware awaits the sleep and *)
(* then call_next; the endpoint functions contain no await.  Hence one     *)
(* action per await-free stretch: Arrive, DelayDone, and one action per    *)
(* endpoint (with the framework's parameter resolution in front of it).    *)
(***************************************************************************)
EXTENDS Integers, Sequences, FiniteSets, TLC

(* ----------------------------- bounds ---------------------------------- *)

MaxRequests == 2

(* --------------------------- value domains ----------------------------- *)

None == <<>>
Some(v) == <<v>>

RequestIds == 1..MaxRequests

DefaultApiKey == "test-api-key"
Delays == {0, 2000}

(* X-API-Key header of a request: absent, or some string *)
Headers == {None, Some(DefaultApiKey), Some("wrong-key")}

(* JSON values of a request body, tagged with their JSON type *)
JStr(v) == [type |-> "string", value |-> v]
JNum(v) == [type |-> "number", value |-> v]

Body(sku, customer, txn, amount) ==
    [sku |-> JStr(sku), customer_identifier |-> JStr(customer),
     transaction_id |-> JStr(txn), amount_paid_in_cents |-> JNum(amount)]

TransactionIds == {"t1", "t2"}

WellFormedBodies ==
    {Body("DRV-1", "cust1", "t1", 29999),
     Body("GHOST", "cust2", "t1", 100),
     Body("DRV-1", "cust1", "t2", 29999)}

(* a body without sku, and a body whose amount is not a number *)
BodyMissingField ==
    [customer_identifier |-> JStr("cust1"), transaction_id |-> JStr("t1"),
     amount_paid_in_cents |-> JNum(29999)]
BodyWrongType ==
    [sku |-> JStr("DRV-1"), customer_identifier |-> JStr("cust1"),
     transaction_id |-> JStr("t1"), amount_paid_in_cents |-> JStr("abc")]

MalformedBodies == {BodyMissingField, BodyWrongType}

Bodies == WellFormedBodies \cup MalformedBodies

(* the requests a client sends: path, X-API-Key header, body *)
Request(path, x_api_key, body) ==
    [path |-> path, x_api_key |-> x_api_key, body |-> body]

RequestInputs ==
    {Request(p, h, None) : p \in {"/ping", "/products"}, h \in Headers}
    \cup {Request("/purchase", Some(DefaultApiKey), Some(b)) : b \in Bodies}
    \cup {Request("/purchase", h, Some(b)) :
             h \in {None, Some("wrong-key")},
             b \in {Body("DRV-1", "cust1", "t1", 29999), BodyMissingField}}

(* catalog documents *)
CatalogA ==
    [categories |-> <<[name |-> "drivers",
                       variants |-> <<[sku |-> "DRV-1", price |-> 29999]>>]>>]
CatalogB ==
    [categories |-> <<[name |-> "putters",
                       variants |-> <<[sku |-> "PUT-1", price |-> 9999]>>]>>]
Catalogs == {CatalogA, CatalogB}

(* content of DATA_FILE on disk *)
FileMissing == [exists |-> FALSE]
FileInvalid == [exists |-> TRUE, json |-> FALSE]
FileWith(c) == [exists |-> TRUE, json |-> TRUE, data |-> c]
(* the JSON document null, which json.load returns as None *)
JsonNull == [null |-> TRUE]
FileNull == FileWith(JsonNull)
DataFiles == {FileMissing, FileInvalid} \cup {FileWith(c) : c \in Catalogs}

(* identifiers uuid.uuid4() can return *)
Uuids == {ToString(n) : n \in 1..MaxRequests}

(* ------------------------------ state ---------------------------------- *)

VARIABLES
    API_KEY,               \* configured credential
    RESPONSE_DELAY_MS,     \* configured delay
    FAIL_PURCHASE,         \* configured failure toggle
    DATA_FILE,             \* content of the catalog file
    phase,                 \* "start" | "serving" | "exited"
    exit_code,             \* None or Some(code)
    log,                   \* set of formatted log records
    product_data_cache,    \* _product_data_cache: None or Some(catalog)
    transaction_results,   \* _transaction_results: transaction_id -> result
    file_reads,            \* number of times DATA_FILE was opened
    issued,                \* uuids returned by uuid4() so far
    computed,              \* transaction_id -> number of results computed
    first_result,          \* transaction_id -> result of its first answer
    sku_index,             \* the sku_index purchase() built last, or None
    requests               \* request id -> request task

vars == <<API_KEY, RESPONSE_DELAY_MS, FAIL_PURCHASE, DATA_FILE, phase,
          exit_code, log, product_data_cache, transaction_results,
          file_reads, issued, computed, first_result, sku_index,
          requests>>

config == <<API_KEY, RESPONSE_DELAY_MS, FAIL_PURCHASE, DATA_FILE>>

(* --------------------------- pure helpers ------------------------------ *)

Put(m, k, v) == [x \in DOMAIN m \cup {k} |-> IF x = k THEN v ELSE m[x]]

(* dict.get(key, default) on a JSON object *)
Get(obj, key, default) == IF key \in DOMAIN obj THEN obj[key] ELSE default

(* a sku already in the index is not overwritten *)
RECURSIVE IndexVariants_FirstWins(_, _)
IndexVariants_FirstWins(variants, index) ==
    IF variants = <<>> THEN index
    ELSE IndexVariants_FirstWins(Tail(variants),
             IF Head(variants).sku \in DOMAIN index THEN index
             ELSE Put(index, Head(variants).sku, Head(variants)))

RECURSIVE IndexVariants(_, _)
IndexVariants(variants, index) ==
    IF variants = <<>> THEN index
    ELSE IndexVariants(Tail(variants),
                       Put(index, Head(variants).sku, Head(variants)))

RECURSIVE IndexCategories(_, _)
IndexCategories(cats, index) ==
    IF cats = <<>> THEN index
    ELSE IndexCategories(Tail(cats),
                         IndexVariants(Get(Head(cats), "variants", <<>>), index))

(* _build_sku_index: {sku: variant_dict}, later entries overwrite earlier *)
BuildSkuIndex(preset_data) ==
    IndexCategories(Get(preset_data, "categories", <<>>), <<>>)

(* the comparison with API_KEY turned around *)
ValidateApiKey_Inverted(x_api_key) ==
    ~(x_api_key = None \/ x_api_key[1] = API_KEY)

(* _validate_api_key: TRUE when the header passes, FALSE when it raises 401 *)
ValidateApiKey(x_api_key) ==
    ~(x_api_key = None \/ x_api_key[1] # API_KEY)

(* the /ping exemption left out *)
DelayApplies_NoPingExemption(path) == RESPONSE_DELAY_MS > 0

(* the condition of delay_middleware under which the request sleeps *)
DelayApplies(path) == RESPONSE_DELAY_MS > 0 /\ path # "/ping"

(* PurchaseRequest: the body parses when the four fields are there, typed *)
PurchaseFields ==
    [sku |-> "string", customer_identifier |-> "string",
     transaction_id |-> "string", amount_paid_in_cents |-> "number"]

(* the fields are required but their types are not checked *)
ValidBody_PresenceOnly(raw) ==
    \A f \in DOMAIN PurchaseFields : f \in DOMAIN raw

ValidBody(raw) ==
    \A f \in DOMAIN PurchaseFields :
        f \in DOMAIN raw /\ raw[f].type = PurchaseFields[f]

ParseBody(raw) == [f \in DOMAIN PurchaseFields |-> raw[f].value]

(* PurchaseResponse *)
PurchaseResponse(confirmation_id, status, message) ==
    [confirmation_id |-> confirmation_id, status |-> status, message |-> message]

(* HTTP responses *)
Unauthorized == [status_code |-> 401,
                 content |-> [detail |-> "Invalid or missing API key"]]
Unprocessable == [status_code |-> 422, content |-> [detail |-> "validation error"]]
InternalError == [status_code |-> 500, content |-> [detail |-> "Internal Server Error"]]
Ok(content) == [status_code |-> 200, content |-> content]

(* a log record: the format string and its arguments as formatted text *)
LogRecord(level, fmt, args) == [level |-> level, fmt |-> fmt, args |-> args]

BoolStr(b) == IF b THEN "True" ELSE "False"

(* uuid.uuid4(): an identifier that was not returned before *)
Uuid4 == Uuids \ issued

(* the prefix left out of the formatted string *)
ConfirmationId_NoPrefix(u) == u

(* the identifier left out of the formatted string *)
ConfirmationId_NoUuid(u) == "MOCK-" \o "uuid"

ConfirmationId(u) == "MOCK-" \o u

(* ------------------------- catalog accessor ---------------------------- *)

PORT == 8099
DataFilePath == "examples/golf.json"

(* _load_product_data succeeds: the file is there and holds JSON *)
LoadSucceeds == DATA_FILE.exists /\ DATA_FILE.json

(* the log record _load_product_data writes before sys.exit(1) *)
LoadErrorLog ==
    IF ~DATA_FILE.exists
    THEN {LogRecord("ERROR", "Product data file not found: %s", <<DataFilePath>>)}
    ELSE IF ~DATA_FILE.json
    THEN {LogRecord("ERROR", "Invalid JSON in %s: %s", <<DataFilePath, "JSONDecodeError">>)}
    ELSE {}

(* _get_product_data: the file is read only while the cache is None *)
MustLoad == product_data_cache = None
GetFails == MustLoad /\ ~LoadSucceeds
(* what json.load returns, as the value assigned to the cache *)
Loaded == IF DATA_FILE.data = JsonNull THEN None ELSE Some(DATA_FILE.data)
(* a later call hands back a catalog stripped of its categories *)
CacheAfterGet_Stripped ==
    IF MustLoad
    THEN (IF LoadSucceeds THEN Loaded ELSE None)
    ELSE Some([categories |-> <<>>])

CacheAfterGet ==
    IF MustLoad
    THEN (IF LoadSucceeds THEN Loaded ELSE None)
    ELSE product_data_cache
(* the value _get_product_data returns, as a JSON document *)
ProductData == IF CacheAfterGet = None THEN JsonNull ELSE CacheAfterGet[1]
ReadsAfterGet ==
    IF MustLoad /\ DATA_FILE.exists THEN file_reads + 1 ELSE file_reads
LogAfterGet == IF MustLoad THEN log \cup LoadErrorLog ELSE log

(* ----------------------------- requests -------------------------------- *)

IdleRequest ==
    [pc |-> "idle", path |-> "", x_api_key |-> None, body |-> None,
     response |-> None, steps |-> <<>>, branch |-> ""]

(* the request task r ends with the given response; branch names the     *)
(* return or raise statement that produced it                            *)
Respond(r, response, steps, branch) ==
    [requests EXCEPT ![r].pc = "done",
                     ![r].response = Some(response),
                     ![r].steps = @ \o steps \o <<"response">>,
                     ![r].branch = branch]

(* ------------------------------- Init ---------------------------------- *)

Init ==
    /\ API_KEY = DefaultApiKey
    /\ RESPONSE_DELAY_MS \in Delays
    /\ FAIL_PURCHASE \in BOOLEAN
    /\ DATA_FILE \in DataFiles
    /\ phase = "start"
    /\ exit_code = None
    /\ log = {}
    /\ product_data_cache = None
    /\ transaction_results = <<>>
    /\ file_reads = 0
    /\ issued = {}
    /\ computed = [t \in TransactionIds |-> 0]
    /\ first_result = <<>>
    /\ sku_index = None
    /\ requests = [r \in RequestIds |-> IdleRequest]

(* ------------------------------ startup -------------------------------- *)

(* the server starts without loading the catalog first *)
Main_NoEagerLoad ==
    /\ phase = "start"
    /\ log' = log \cup
              {LogRecord("INFO", "Starting mock server on port %d (data_file=%s)",
                         <<ToString(PORT), DataFilePath>>),
               LogRecord("INFO", "Config: API_KEY=%s RESPONSE_DELAY_MS=%d FAIL_PURCHASE=%s",
                         <<API_KEY, ToString(RESPONSE_DELAY_MS), BoolStr(FAIL_PURCHASE)>>)}
    /\ phase' = "serving"
    /\ UNCHANGED <<config, exit_code, product_data_cache, file_reads,
                   transaction_results, issued, computed, first_result,
                   sku_index, requests>>

(* __main__: log the configuration, load the catalog, start serving *)
Main ==
    /\ phase = "start"
    /\ log' = LogAfterGet \cup
              {LogRecord("INFO", "Starting mock server on port %d (data_file=%s)",
                         <<ToString(PORT), DataFilePath>>),
               LogRecord("INFO", "Config: API_KEY=%s RESPONSE_DELAY_MS=%d FAIL_PURCHASE=%s",
                         <<API_KEY, ToString(RESPONSE_DELAY_MS), BoolStr(FAIL_PURCHASE)>>)}
    /\ product_data_cache' = CacheAfterGet
    /\ file_reads' = ReadsAfterGet
    /\ IF GetFails
       THEN phase' = "exited" /\ exit_code' = Some(1)
       ELSE phase' = "serving" /\ UNCHANGED exit_code
    /\ UNCHANGED <<config, transaction_results, issued, computed, first_result,
                   sku_index, requests>>

(* --------------------------- delay_middleware -------------------------- *)

(* a request enters delay_middleware *)
Arrive(r, path, x_api_key, body) ==
    /\ phase = "serving"
    /\ requests[r].pc = "idle"
    /\ \A q \in RequestIds : q < r => requests[q].pc # "idle"
    /\ requests' = [requests EXCEPT ![r] =
           [pc |-> IF DelayApplies(path) THEN "sleeping" ELSE "call_next",
            path |-> path, x_api_key |-> x_api_key, body |-> body,
            response |-> None, steps |-> <<>>, branch |-> ""]]
    /\ UNCHANGED <<config, phase, exit_code, log, product_data_cache,
                   transaction_results, file_reads, issued, computed,
                   first_result, sku_index>>

(* sleeps end in the order in which the requests arrived *)
DelayDone_InOrder(r) ==
    /\ phase = "serving"
    /\ requests[r].pc = "sleeping"
    /\ \A q \in RequestIds : q < r => requests[q].pc # "sleeping"
    /\ requests' = [requests EXCEPT ![r].pc = "call_next",
                                    ![r].steps = Append(@, "delay")]
    /\ UNCHANGED <<config, phase, exit_code, log, product_data_cache,
                   transaction_results, file_reads, issued, computed,
                   first_result, sku_index>>

(* the sleep returns only once every other request has been answered *)
DelayDone_WaitsForOthers(r) ==
    /\ phase = "serving"
    /\ requests[r].pc = "sleeping"
    /\ \A q \in RequestIds \ {r} : requests[q].pc \in {"idle", "done"}
    /\ requests' = [requests EXCEPT ![r].pc = "call_next",
                                    ![r].steps = Append(@, "delay")]
    /\ UNCHANGED <<config, phase, exit_code, log, product_data_cache,
                   transaction_results, file_reads, issued, computed,
                   first_result, sku_index>>

(* asyncio.sleep returns; the middleware goes on to call_next *)
DelayDone(r) ==
    /\ phase = "serving"
    /\ requests[r].pc = "sleeping"
    /\ requests' = [requests EXCEPT ![r].pc = "call_next",
                                    ![r].steps = Append(@, "delay")]
    /\ UNCHANGED <<config, phase, exit_code, log, product_data_cache,
                   transaction_results, file_reads, issued, computed,
                   first_result, sku_index>>

(* ------------------------------ endpoints ------------------------------ *)

(* GET /ping *)
Ping(r) ==
    /\ phase = "serving"
    /\ requests[r].pc = "call_next"
    /\ requests[r].path = "/ping"
    /\ requests' =
         IF ValidateApiKey(requests[r].x_api_key)
         THEN Respond(r, Ok([status |-> "ok"]), <<"auth", "handler">>, "ping")
         ELSE Respond(r, Unauthorized, <<"auth">>, "401")
    /\ UNCHANGED <<config, phase, exit_code, log, product_data_cache,
                   transaction_results, file_reads, issued, computed,
                   first_result, sku_index>>

(* GET /products *)
ListProducts(r) ==
    /\ phase = "serving"
    /\ requests[r].pc = "call_next"
    /\ requests[r].path = "/products"
    /\ IF ~ValidateApiKey(requests[r].x_api_key)
       THEN /\ requests' = Respond(r, Unauthorized, <<"auth">>, "401")
            /\ UNCHANGED <<phase, exit_code, log, product_data_cache, file_reads>>
       ELSE /\ product_data_cache' = CacheAfterGet
            /\ file_reads' = ReadsAfterGet
            /\ log' = LogAfterGet
            /\ IF GetFails
               THEN /\ phase' = "exited"
                    /\ exit_code' = Some(1)
                    /\ UNCHANGED requests
               ELSE /\ requests' = Respond(r, Ok(ProductData), <<"auth", "handler">>,
                                             "products")
                    /\ UNCHANGED <<phase, exit_code>>
    /\ UNCHANGED <<config, transaction_results, issued, computed, first_result,
                   sku_index>>

(* POST /purchase with a body that does not parse as PurchaseRequest: the  *)
(* framework resolves the parameters of purchase() before it calls it      *)
RequestValidationError(r) ==
    /\ phase = "serving"
    /\ requests[r].pc = "call_next"
    /\ requests[r].path = "/purchase"
    /\ ~ValidBody(requests[r].body[1])
    /\ requests' = Respond(r, Unprocessable, <<"validate">>, "422")
    /\ UNCHANGED <<config, phase, exit_code, log, product_data_cache,
                   transaction_results, file_reads, issued, computed,
                   first_result, sku_index>>

(* SKU validation left out *)
PurchaseBranch_NoSkuCheck(body) ==
    IF body.transaction_id \in DOMAIN transaction_results THEN "cached"
    ELSE IF FAIL_PURCHASE THEN "forced"
    ELSE IF GetFails THEN "exit"
    ELSE IF ProductData = JsonNull THEN "error"
    ELSE "success"

(* SKU validation moved in front of the FAIL_PURCHASE check *)
PurchaseBranch_SkuFirst(body) ==
    IF body.transaction_id \in DOMAIN transaction_results THEN "cached"
    ELSE IF GetFails THEN "exit"
    ELSE IF ProductData = JsonNull THEN "error"
    ELSE IF body.sku \notin DOMAIN BuildSkuIndex(ProductData) THEN "unknown"
    ELSE IF FAIL_PURCHASE THEN "forced"
    ELSE "success"

(* the idempotency check left out *)
PurchaseBranch_NoReplay(body) ==
    IF FAIL_PURCHASE THEN "forced"
    ELSE IF GetFails THEN "exit"
    ELSE IF ProductData = JsonNull THEN "error"
    ELSE IF body.sku \notin DOMAIN BuildSkuIndex(ProductData) THEN "unknown"
    ELSE "success"

(* which return statement of purchase() the request reaches *)
PurchaseBranch(body) ==
    IF body.transaction_id \in DOMAIN transaction_results THEN "cached"
    ELSE IF FAIL_PURCHASE THEN "forced"
    ELSE IF GetFails THEN "exit"
    ELSE IF ProductData = JsonNull THEN "error"
    ELSE IF body.sku \notin DOMAIN BuildSkuIndex(ProductData) THEN "unknown"
    ELSE "success"

(* the unknown-SKU message without the sku of the request *)
PurchaseResult_NoSkuInMessage(body, branch, u) ==
    CASE branch = "cached" -> transaction_results[body.transaction_id]
      [] branch = "forced" -> PurchaseResponse("", "failed", "Purchase rejected")
      [] branch = "unknown" -> PurchaseResponse("", "failed", "Unknown SKU: ")
      [] branch = "success" ->
             PurchaseResponse(ConfirmationId(u), "confirmed", "Booking confirmed")

(* the PurchaseResponse built (or fetched) on that branch; u = uuid4() *)
PurchaseResult(body, branch, u) ==
    CASE branch = "cached" -> transaction_results[body.transaction_id]
      [] branch = "forced" -> PurchaseResponse("", "failed", "Purchase rejected")
      [] branch = "unknown" ->
             PurchaseResponse("", "failed", "Unknown SKU: " \o body.sku)
      [] branch = "success" ->
             PurchaseResponse(ConfirmationId(u), "confirmed", "Booking confirmed")

(* the cache keeps the latest result only *)
StoreResult_KeepsLatestOnly(body, branch, result) ==
    IF branch = "cached" THEN transaction_results
    ELSE Put(<<>>, body.transaction_id, result)

(* the unknown-SKU branch forgets to store its result *)
StoreResult_NotOnUnknown(body, branch, result) ==
    IF branch \in {"cached", "unknown"} THEN transaction_results
    ELSE Put(transaction_results, body.transaction_id, result)

(* the success branch forgets to store its result *)
StoreResult_NotOnSuccess(body, branch, result) ==
    IF branch \in {"cached", "success"} THEN transaction_results
    ELSE Put(transaction_results, body.transaction_id, result)

(* _transaction_results after the branch *)
StoreResult(body, branch, result) ==
    IF branch = "cached" THEN transaction_results
    ELSE Put(transaction_results, body.transaction_id, result)

(* the records purchase() logs on that branch *)
PurchaseLog(body, branch, result) ==
    {LogRecord("INFO", "Purchase request: sku=%s customer=%s txn=%s amount=%d",
               <<body.sku, body.customer_identifier, body.transaction_id,
                 ToString(body.amount_paid_in_cents)>>)}
    \cup (IF branch = "cached"
          THEN {LogRecord("INFO", "Returning cached result for transaction_id=%s",
                          <<body.transaction_id>>)}
          ELSE {})
    \cup (IF branch = "success"
          THEN {LogRecord("INFO", "Purchase confirmed: confirmation_id=%s txn=%s",
                          <<result.confirmation_id, body.transaction_id>>)}
          ELSE {})

(* POST /purchase with a body that parses *)
Purchase(r) ==
    /\ phase = "serving"
    /\ requests[r].pc = "call_next"
    /\ requests[r].path = "/purchase"
    /\ ValidBody(requests[r].body[1])
    /\ IF ~ValidateApiKey(requests[r].x_api_key)
       THEN /\ requests' = Respond(r, Unauthorized, <<"validate", "auth">>, "401")
            /\ UNCHANGED <<phase, exit_code, log, product_data_cache,
                           transaction_results, file_reads, issued, computed,
                           first_result, sku_index>>
       ELSE LET body == ParseBody(requests[r].body[1])
                branch == PurchaseBranch(body)
            IN  IF branch = "exit"
                THEN /\ phase' = "exited"
                     /\ exit_code' = Some(1)
                     /\ log' = LogAfterGet \cup PurchaseLog(body, branch, None)
                     /\ file_reads' = ReadsAfterGet
                     /\ UNCHANGED <<product_data_cache, transaction_results,
                                    issued, computed, first_result, sku_index,
                                    requests>>
                ELSE IF branch = "error"
                THEN \* _build_sku_index(None) raises AttributeError
                     /\ log' = log \cup PurchaseLog(body, branch, None)
                     /\ product_data_cache' = CacheAfterGet
                     /\ file_reads' = ReadsAfterGet
                     /\ requests' = Respond(r, InternalError,
                                            <<"validate", "auth", "handler">>, branch)
                     /\ UNCHANGED <<phase, exit_code, transaction_results,
                                    issued, computed, first_result, sku_index>>
                ELSE \E u \in Uuid4 :
                     LET result == PurchaseResult(body, branch, u)
                         loads == branch \in {"unknown", "success"}
                     IN  /\ transaction_results' = StoreResult(body, branch, result)
                         /\ log' = log \cup PurchaseLog(body, branch, result)
                         /\ product_data_cache' =
                                IF loads THEN CacheAfterGet ELSE product_data_cache
                         /\ file_reads' = IF loads THEN ReadsAfterGet ELSE file_reads
                         /\ sku_index' =
                                IF loads THEN Some(BuildSkuIndex(ProductData))
                                ELSE sku_index
                         /\ issued' = IF branch = "success" THEN issued \cup {u}
                                      ELSE issued
                         /\ computed' =
                                IF branch = "cached" THEN computed
                                ELSE [computed EXCEPT ![body.transaction_id] = @ + 1]
                         /\ first_result' =
                                IF body.transaction_id \in DOMAIN first_result
                                THEN first_result
                                ELSE Put(first_result, body.transaction_id, result)
                         /\ requests' =
                                Respond(r, Ok(result), <<"validate", "auth", "handler">>,
                                        branch)
                         /\ UNCHANGED <<phase, exit_code>>
    /\ UNCHANGED config

(* ------------------------------- Next ---------------------------------- *)

Next ==
    \/ Main
    \/ \E r \in RequestIds, i \in RequestInputs :
          Arrive(r, i.path, i.x_api_key, i.body)
    \/ \E r \in RequestIds : DelayDone(r)
    \/ \E r \in RequestIds : Ping(r)
    \/ \E r \in RequestIds : ListProducts(r)
    \/ \E r \in RequestIds : RequestValidationError(r)
    \/ \E r \in RequestIds : Purchase(r)

Spec == Init /\ [][Next]_vars

(* the same program started on a catalog file with any JSON content *)
InitAnyJson ==
    /\ API_KEY = DefaultApiKey
    /\ RESPONSE_DELAY_MS \in Delays
    /\ FAIL_PURCHASE \in BOOLEAN
    /\ DATA_FILE \in DataFiles \cup {FileNull}
    /\ phase = "start"
    /\ exit_code = None
    /\ log = {}
    /\ product_data_cache = None
    /\ transaction_results = <<>>
    /\ file_reads = 0
    /\ issued = {}
    /\ computed = [t \in TransactionIds |-> 0]
    /\ first_result = <<>>
    /\ sku_index = None
    /\ requests = [r \in RequestIds |-> IdleRequest]

SpecAnyJson == InitAnyJson /\ [][Next]_vars

(* ===================== vocabulary of the properties ==================== *)

Done(r) == requests[r].pc = "done"
StatusCode(r) == requests[r].response[1].status_code
Content(r) == requests[r].response[1].content

(* the request carries exactly the configured key *)
Authenticated(r) == requests[r].x_api_key = Some(API_KEY)

IsPurchase(r) == requests[r].path = "/purchase"
WellFormed(r) == IsPurchase(r) /\ requests[r].body[1] \in WellFormedBodies
Field(r, f) == requests[r].body[1][f].value
Txn(r) == Field(r, "transaction_id")

(* an authenticated well-formed purchase request that has been answered *)
PurchaseAnswered(r) == Done(r) /\ WellFormed(r) /\ Authenticated(r)

(* the step answers request r *)
Answers(r) == requests[r].pc = "call_next" /\ requests'[r].pc = "done"

RejectedResult == PurchaseResponse("", "failed", "Purchase rejected")

(* the sku values of the variants of a catalog document *)
CatalogSkus(c) ==
    {c.categories[i].variants[j].sku :
        <<i, j>> \in {<<i, j>> \in (1..2) \X (1..2) :
                        /\ i \in DOMAIN c.categories
                        /\ j \in DOMAIN c.categories[i].variants}}

(* ============================ properties =============================== *)

(* C1: idempotency of POST /purchase.  Every authenticated well-formed     *)
(* purchase request is answered with exactly the result that was returned  *)
(* to the first request processed for its transaction_id, whatever sku,    *)
(* customer_identifier or amount_paid_in_cents it carries.                  *)
C1_Idempotency ==
    \A r \in RequestIds :
        PurchaseAnswered(r) =>
            /\ StatusCode(r) = 200
            /\ Txn(r) \in DOMAIN first_result
            /\ Content(r) = first_result[Txn(r)]

(* a replay with another sku, customer and amount got the confirmed result *)
C1_Witness ==
    \E r1, r2 \in RequestIds :
        /\ r1 # r2
        /\ PurchaseAnswered(r1) /\ PurchaseAnswered(r2)
        /\ Txn(r1) = Txn(r2)
        /\ Field(r1, "sku") # Field(r2, "sku")
        /\ Field(r1, "customer_identifier") # Field(r2, "customer_identifier")
        /\ Field(r1, "amount_paid_in_cents") # Field(r2, "amount_paid_in_cents")
        /\ requests[r2].branch = "cached"
        /\ Content(r1).status = "confirmed"
        /\ Content(r2) = Content(r1)

(* C2: at most one computation per transaction_id under concurrency.  No   *)
(* transaction_id has its result computed more than once, and any two      *)
(* answered purchase requests with the same transaction_id carry the same  *)
(* result, in particular the same confirmation_id.                          *)
C2_AtMostOneComputation ==
    /\ \A t \in TransactionIds : computed[t] <= 1
    /\ \A r1, r2 \in RequestIds :
          (PurchaseAnswered(r1) /\ PurchaseAnswered(r2) /\ Txn(r1) = Txn(r2)) =>
              /\ Content(r1).confirmation_id = Content(r2).confirmation_id
              /\ Content(r1) = Content(r2)

(* r1 arrived first but r2 was handled first: both were in flight together *)
C2_Witness ==
    \E r1, r2 \in RequestIds :
        /\ r1 < r2
        /\ PurchaseAnswered(r1) /\ PurchaseAnswered(r2)
        /\ Txn(r1) = Txn(r2)
        /\ requests[r2].branch = "success"
        /\ requests[r1].branch = "cached"
        /\ computed[Txn(r1)] = 1

(* C3: auth gate.  On every route and with any body, a request whose       *)
(* X-API-Key header is absent or differs from the configured api_key is    *)
(* answered with 401 and the detail "Invalid or missing API key".           *)
C3_AuthGate ==
    \A r \in RequestIds :
        (Done(r) /\ ~Authenticated(r)) =>
            requests[r].response = Some(Unauthorized)

(* C4: forced failure has priority over SKU validation.  With              *)
(* FAIL_PURCHASE on, an authenticated purchase request whose               *)
(* transaction_id is not in the Transaction Cache is answered with         *)
(* {"", "failed", "Purchase rejected"}, whatever its sku.                   *)
C4_ForcedFailureFirst ==
    [][\A r \in RequestIds :
          (/\ Answers(r)
           /\ WellFormed(r) /\ Authenticated(r)
           /\ FAIL_PURCHASE
           /\ Txn(r) \notin DOMAIN transaction_results) =>
              requests'[r].response = Some(Ok(RejectedResult))]_vars

(* a request for a sku outside the catalog was rejected by the toggle *)
C4_Witness ==
    \E r \in RequestIds :
        /\ FAIL_PURCHASE
        /\ PurchaseAnswered(r)
        /\ requests[r].branch = "forced"
        /\ product_data_cache # None
        /\ Field(r, "sku") \notin CatalogSkus(product_data_cache[1])
        /\ Content(r) = RejectedResult

(* C5: unknown SKU.  With FAIL_PURCHASE off, an authenticated purchase     *)
(* request whose transaction_id is not in the Transaction Cache and whose  *)
(* sku is not in the loaded catalog is answered with                       *)
(* {"", "failed", "Unknown SKU: <sku>"} for its own sku.                    *)
C5_UnknownSku ==
    [][\A r \in RequestIds :
          (/\ Answers(r)
           /\ WellFormed(r) /\ Authenticated(r)
           /\ ~FAIL_PURCHASE
           /\ Txn(r) \notin DOMAIN transaction_results
           /\ product_data_cache # None
           /\ Field(r, "sku") \notin CatalogSkus(product_data_cache[1])) =>
              requests'[r].response =
                  Some(Ok(PurchaseResponse("", "failed",
                                           "Unknown SKU: " \o Field(r, "sku"))))]_vars

(* GHOST was refused by name, and so was DRV-1 under the putters catalog *)
C5_Witness ==
    \E r1, r2 \in RequestIds :
        /\ PurchaseAnswered(r1) /\ PurchaseAnswered(r2)
        /\ requests[r1].branch = "unknown" /\ requests[r2].branch = "unknown"
        /\ Content(r1).message = "Unknown SKU: GHOST"
        /\ Content(r2).message = "Unknown SKU: DRV-1"

(* C6: success path.  With FAIL_PURCHASE off, an authenticated purchase    *)
(* request whose transaction_id is not in the Transaction Cache and whose  *)
(* sku is in the loaded catalog is answered with status "confirmed",       *)
(* message "Booking confirmed" and a confirmation_id "MOCK-" followed by   *)
(* an identifier generated in that step; a "confirmed" answer is given     *)
(* only there, or as the replay of a result confirmed there.                *)
C6_SuccessPath ==
    [][\A r \in RequestIds :
          (Answers(r) /\ WellFormed(r)) =>
              LET response == requests'[r].response[1]
                  fresh == Txn(r) \notin DOMAIN transaction_results
                  known == /\ product_data_cache # None
                           /\ Field(r, "sku") \in CatalogSkus(product_data_cache[1])
              IN  /\ (Authenticated(r) /\ fresh /\ ~FAIL_PURCHASE /\ known) =>
                        /\ response.status_code = 200
                        /\ response.content.status = "confirmed"
                        /\ response.content.message = "Booking confirmed"
                        /\ \E u \in Uuids \ issued :
                              /\ response.content.confirmation_id = "MOCK-" \o u
                              /\ u \in issued'
                  /\ (response.status_code = 200
                        /\ response.content.status = "confirmed") =>
                        \/ Authenticated(r) /\ fresh /\ ~FAIL_PURCHASE /\ known
                        \/ /\ Authenticated(r) /\ ~fresh
                           /\ response.content = transaction_results[Txn(r)]]_vars

(* a purchase of a catalog sku was confirmed with a MOCK- identifier *)
C6_Witness ==
    \E r \in RequestIds :
        /\ PurchaseAnswered(r)
        /\ requests[r].branch = "success"
        /\ Field(r, "sku") \in CatalogSkus(product_data_cache[1])
        /\ Content(r).status = "confirmed"
        /\ Content(r).message = "Booking confirmed"
        /\ Content(r).confirmation_id \in {"MOCK-" \o u : u \in issued}

(* C7: confirmation ids are globally unique.  Two distinct                 *)
(* transaction_ids with confirmed cached results have different            *)
(* confirmation_ids, and no two clients asking for different               *)
(* transaction_ids were handed the same confirmation_id.                    *)
C7_UniqueConfirmationIds ==
    /\ \A t1, t2 \in DOMAIN transaction_results :
          (/\ t1 # t2
           /\ transaction_results[t1].status = "confirmed"
           /\ transaction_results[t2].status = "confirmed") =>
              transaction_results[t1].confirmation_id
                  # transaction_results[t2].confirmation_id
    /\ \A r1, r2 \in RequestIds :
          (/\ PurchaseAnswered(r1) /\ PurchaseAnswered(r2)
           /\ Txn(r1) # Txn(r2)
           /\ Content(r1).status = "confirmed"
           /\ Content(r2).status = "confirmed") =>
              Content(r1).confirmation_id # Content(r2).confirmation_id

(* two transaction_ids are confirmed in the cache and were both answered *)
C7_Witness ==
    /\ \A t \in TransactionIds :
          /\ t \in DOMAIN transaction_results
          /\ transaction_results[t].status = "confirmed"
    /\ \E r1, r2 \in RequestIds :
          /\ PurchaseAnswered(r1) /\ PurchaseAnswered(r2)
          /\ Txn(r1) # Txn(r2)
          /\ Content(r1).status = "confirmed"
          /\ Content(r2).status = "confirmed"

(* C8: cache write discipline.  A step that answers a purchase request     *)
(* with a result leaves the Transaction Cache mapping the transaction_id   *)
(* to exactly that result: a new transaction_id is added with the          *)
(* returned result and nothing else changes, and a replay leaves the       *)
(* cache as it was.                                                         *)
C8_CacheWriteDiscipline ==
    [][\A r \in RequestIds :
          (Answers(r) /\ WellFormed(r)
             /\ requests'[r].response[1].status_code = 200) =>
              LET result == requests'[r].response[1].content
                  txn == Txn(r)
              IN  /\ txn \in DOMAIN transaction_results'
                  /\ transaction_results'[txn] = result
                  /\ IF txn \in DOMAIN transaction_results
                     THEN transaction_results' = transaction_results
                     ELSE transaction_results' =
                              Put(transaction_results, txn, result)]_vars

(* an unknown-SKU result was stored and then replayed from the cache *)
C8_Witness ==
    \E r1, r2 \in RequestIds :
        /\ PurchaseAnswered(r1) /\ PurchaseAnswered(r2)
        /\ requests[r1].branch = "unknown"
        /\ requests[r2].branch = "cached"
        /\ Txn(r1) = Txn(r2)
        /\ transaction_results[Txn(r1)] = Content(r1)
        /\ Content(r2) = Content(r1)

(* C9: no processing on authentication failure.  A step that rejects a    *)
(* request with 401 leaves the Transaction Cache and the catalog cache     *)
(* unchanged, and no log record ever carries a credential value: neither   *)
(* the configured api_key nor the key a rejected request presented.         *)
CredentialValues ==
    {API_KEY} \cup
    {requests[r].x_api_key[1] :
        r \in {q \in RequestIds : /\ Done(q)
                                  /\ requests[q].x_api_key # None
                                  /\ StatusCode(q) = 401}}

LoggedValues == UNION {{e.args[i] : i \in DOMAIN e.args} : e \in log}

C9_NoProcessingOnAuthFailure ==
    [][/\ \A r \in RequestIds :
             (Answers(r) /\ requests'[r].response = Some(Unauthorized)) =>
                 /\ transaction_results' = transaction_results
                 /\ product_data_cache' = product_data_cache
       /\ (LoggedValues \cap CredentialValues)' = {}]_vars

(* C10: delay ordering and ping exemption.  With RESPONSE_DELAY_MS > 0 a   *)
(* request to /products or /purchase has finished the delay before its     *)
(* API key check, handler and response, in that order; a request to /ping  *)
(* never sleeps and never passes the delay step.                            *)
StepRank(step) ==
    CASE step = "delay" -> 1
      [] step = "validate" -> 2
      [] step = "auth" -> 3
      [] step = "handler" -> 4
      [] step = "response" -> 5

C10_DelayOrdering ==
    \A r \in RequestIds :
        LET steps == requests[r].steps
        IN  /\ requests[r].path = "/ping" =>
                  /\ requests[r].pc # "sleeping"
                  /\ \A i \in DOMAIN steps : steps[i] # "delay"
            /\ (/\ RESPONSE_DELAY_MS > 0
                /\ requests[r].path \in {"/products", "/purchase"}
                /\ requests[r].pc \in {"call_next", "done"}) =>
                  (steps # <<>> /\ steps[1] = "delay")
            /\ \A i, j \in DOMAIN steps :
                  i < j => StepRank(steps[i]) < StepRank(steps[j])
            /\ Done(r) => steps[Len(steps)] = "response"

(* under a delay, /products went delay, key check, handler, response,     *)
(* while /ping went straight to its key check                              *)
C10_Witness ==
    /\ RESPONSE_DELAY_MS > 0
    /\ \E r1, r2 \in RequestIds :
          /\ Done(r1) /\ Done(r2)
          /\ requests[r1].path = "/ping"
          /\ requests[r1].steps = <<"auth", "handler", "response">>
          /\ requests[r2].path = "/products"
          /\ requests[r2].steps = <<"delay", "auth", "handler", "response">>

(* C11: the delay is not a global serialization point.  While the server  *)
(* is serving, whatever the other requests are doing, a request in the      *)
(* delay can leave it, a request past the delay can be answered by its      *)
(* handler, and the next request can start on any route.                    *)
C11_NoSerialization ==
    phase = "serving" =>
        \A r \in RequestIds :
            /\ requests[r].pc = "sleeping" => ENABLED DelayDone(r)
            /\ requests[r].pc = "call_next" =>
                  ENABLED (\/ Ping(r) \/ ListProducts(r)
                           \/ RequestValidationError(r) \/ Purchase(r))
            /\ (/\ requests[r].pc = "idle"
                /\ \A q \in RequestIds : q < r => requests[q].pc # "idle") =>
                  \A i \in RequestInputs :
                      ENABLED Arrive(r, i.path, i.x_api_key, i.body)

(* a delayed purchase that arrived second was answered while the first     *)
(* request is still in its delay                                           *)
C11_Witness ==
    \E r1, r2 \in RequestIds :
        /\ r1 < r2
        /\ requests[r1].pc = "sleeping"
        /\ PurchaseAnswered(r2)
        /\ requests[r2].steps[1] = "delay"
        /\ StatusCode(r2) = 200

(* C12: the catalog is served verbatim and never changes.  Every           *)
(* authenticated GET /products is answered with the catalog document of    *)
(* the file as it was loaded, and once the catalog is cached no step       *)
(* changes the cached value.                                                *)
C12_CatalogVerbatim ==
    [][/\ \A r \in RequestIds :
             (Answers(r) /\ requests[r].path = "/products" /\ Authenticated(r)) =>
                 requests'[r].response = Some(Ok(DATA_FILE.data))
       /\ product_data_cache # None =>
             /\ product_data_cache' = product_data_cache
             /\ product_data_cache = Some(DATA_FILE.data)]_vars

(* the catalog was served unchanged next to a purchase that built the index *)
C12_Witness ==
    \E r1, r2 \in RequestIds :
        /\ Done(r1) /\ requests[r1].path = "/products" /\ Authenticated(r1)
        /\ Content(r1) = DATA_FILE.data
        /\ PurchaseAnswered(r2)
        /\ requests[r2].branch \in {"unknown", "success"}
        /\ sku_index # None
        /\ product_data_cache = Some(DATA_FILE.data)

(* C13: the catalog file is read at most once per process lifetime,      *)
(* whatever well-formed JSON it holds and whichever of startup,            *)
(* GET /products and POST /purchase call the catalog accessor.              *)
C13_FileReadOnce == file_reads <= 1

(* C14: startup is all-or-nothing.  With a missing or unparsable catalog   *)
(* file the process ends with exit code 1 and no request is ever accepted  *)
(* or answered; whenever a request is in the server, the catalog has been  *)
(* loaded from the file.                                                    *)
C14_StartupAllOrNothing ==
    /\ (phase # "start" /\ ~LoadSucceeds) =>
          /\ phase = "exited"
          /\ exit_code = Some(1)
          /\ \A r \in RequestIds : requests[r] = IdleRequest
    /\ phase = "exited" => (exit_code = Some(1) /\ ~LoadSucceeds)
    /\ (\E r \in RequestIds : requests[r].pc # "idle") =>
          /\ LoadSucceeds
          /\ file_reads >= 1
          /\ product_data_cache = Some(DATA_FILE.data)

(* the process gave up on a file that is not JSON, having logged the cause *)
C14_Witness ==
    /\ DATA_FILE = FileInvalid
    /\ phase = "exited"
    /\ exit_code = Some(1)
    /\ \E e \in log : e.level = "ERROR" /\ e.fmt = "Invalid JSON in %s: %s"
    /\ \A r \in RequestIds : requests[r] = IdleRequest

(* C15: two-tier error model.  Every authenticated well-formed            *)
(* POST /purchase is answered with HTTP 200 and a result whose status is   *)
(* "confirmed" or "failed"; a 401 is only ever the answer to a request     *)
(* whose key is absent or differs from the configured one.                  *)
C15_TwoTierErrors ==
    \A r \in RequestIds :
        Done(r) =>
            /\ (WellFormed(r) /\ Authenticated(r)) =>
                  /\ StatusCode(r) = 200
                  /\ DOMAIN Content(r) = {"confirmation_id", "status", "message"}
                  /\ Content(r).status \in {"confirmed", "failed"}
            /\ StatusCode(r) = 401 =>
                  (requests[r].x_api_key = None
                     \/ requests[r].x_api_key[1] # API_KEY)

(* an unknown SKU was reported with 200 and a bad key with 401 *)
C15_Witness ==
    \E r1, r2 \in RequestIds :
        /\ PurchaseAnswered(r1)
        /\ StatusCode(r1) = 200
        /\ Content(r1).status = "failed"
        /\ Content(r1).message = "Unknown SKU: GHOST"
        /\ Done(r2) /\ ~Authenticated(r2)
        /\ StatusCode(r2) = 401

(* C16: malformed purchase body.  A POST /purchase whose body lacks a      *)
(* required field or has a wrongly typed one is answered with a 4xx        *)
(* client error without the key check or the handler having run; the       *)
(* answer carries no purchase result and the step changes neither the      *)
(* Transaction Cache nor the log.                                           *)
C16_MalformedBody ==
    [][\A r \in RequestIds :
          (Answers(r) /\ IsPurchase(r)
             /\ requests[r].body[1] \in MalformedBodies) =>
              /\ requests'[r].response[1].status_code \in 400..499
              /\ "status" \notin DOMAIN requests'[r].response[1].content
              /\ \A i \in DOMAIN requests'[r].steps :
                    requests'[r].steps[i] \notin {"auth", "handler"}
              /\ transaction_results' = transaction_results
              /\ first_result' = first_result
              /\ log' = log]_vars

(* both kinds of malformed body were refused and t1 is still unknown *)
C16_Witness ==
    \E r1, r2 \in RequestIds :
        /\ Done(r1) /\ requests[r1].body = Some(BodyMissingField)
        /\ Done(r2) /\ requests[r2].body = Some(BodyWrongType)
        /\ StatusCode(r1) = 422 /\ StatusCode(r2) = 422
        /\ Authenticated(r2)
        /\ "t1" \notin DOMAIN transaction_results

(* ------------- _build_sku_index on its own: catalogs at large ---------- *)

MaxCategories == 2
MaxVariants == 2

SeqsUpTo(S, n) == UNION {[1..k -> S] : k \in 0..n}

GenVariants ==
    {[sku |-> "A", price |-> 1], [sku |-> "A", price |-> 2],
     [sku |-> "B", price |-> 1]}

(* categories with a variants array, and one without the key *)
GenCategories ==
    {[name |-> "c", variants |-> vs] : vs \in SeqsUpTo(GenVariants, MaxVariants)}
    \cup {[name |-> "c"]}

(* catalogs with a categories array, and one without the key *)
GenCatalogs ==
    {[categories |-> cs] : cs \in SeqsUpTo(GenCategories, MaxCategories)}
    \cup {[title |-> "empty"]}

(* the catalog is loaded and _build_sku_index has not been called yet *)
InitIndex ==
    /\ API_KEY = DefaultApiKey
    /\ RESPONSE_DELAY_MS = 0
    /\ FAIL_PURCHASE = FALSE
    /\ \E c \in GenCatalogs :
          /\ DATA_FILE = FileWith(c)
          /\ product_data_cache = Some(c)
    /\ phase = "index"
    /\ exit_code = None
    /\ log = {}
    /\ transaction_results = <<>>
    /\ file_reads = 1
    /\ issued = {}
    /\ computed = [t \in TransactionIds |-> 0]
    /\ first_result = <<>>
    /\ sku_index = None
    /\ requests = [r \in RequestIds |-> IdleRequest]

(* sku_index = _build_sku_index(_get_product_data()) *)
BuildIndexStep ==
    /\ phase = "index"
    /\ sku_index = None
    /\ sku_index' = Some(BuildSkuIndex(ProductData))
    /\ product_data_cache' = CacheAfterGet
    /\ UNCHANGED <<config, phase, exit_code, log, transaction_results,
                   file_reads, issued, computed, first_result, requests>>

NextIndex == BuildIndexStep

SpecIndex == InitIndex /\ [][NextIndex]_vars

(* all variants of a catalog document, in document order *)
RECURSIVE FlatVariants(_)
FlatVariants(cats) ==
    IF cats = <<>> THEN <<>>
    ELSE (IF "variants" \in DOMAIN Head(cats) THEN Head(cats).variants ELSE <<>>)
         \o FlatVariants(Tail(cats))

DocumentVariants(c) ==
    FlatVariants(IF "categories" \in DOMAIN c THEN c.categories ELSE <<>>)

(* C17: SKU index construction.  The index built from a catalog has as     *)
(* keys exactly the sku values of all variants of all categories and maps  *)
(* each sku to the last variant with that sku in document order; the       *)
(* catalog is the same after the call.                                      *)
C17_SkuIndex ==
    sku_index # None =>
        LET index == sku_index[1]
            flat == DocumentVariants(DATA_FILE.data)
        IN  /\ DOMAIN index = {flat[i].sku : i \in DOMAIN flat}
            /\ \A s \in DOMAIN index :
                  \E i \in DOMAIN flat :
                      /\ flat[i].sku = s
                      /\ index[s] = flat[i]
                      /\ \A j \in DOMAIN flat : j > i => flat[j].sku # s
            /\ product_data_cache = Some(DATA_FILE.data)

(* sku A occurs in two categories and the index holds the later variant *)
C17_Witness ==
    /\ phase = "index"
    /\ sku_index # None
    /\ DATA_FILE.data =
          [categories |-> <<[name |-> "c", variants |-> <<[sku |-> "A", price |-> 1],
                                                         [sku |-> "B", price |-> 1]>>],
                            [name |-> "c", variants |-> <<[sku |-> "A", price |-> 2]>>]>>]
    /\ DOMAIN sku_index[1] = {"A", "B"}
    /\ sku_index[1]["A"].price = 2

(* C18: the Transaction Cache only grows.  No step removes or overwrites   *)
(* an entry; the only change is a purchase request adding its own          *)
(* transaction_id, which was not a key; GET /ping, GET /products and       *)
(* replayed purchases leave the cache as it is.                             *)
C18_CacheOnlyGrows ==
    [][/\ \A t \in DOMAIN transaction_results :
             /\ t \in DOMAIN transaction_results'
             /\ transaction_results'[t] = transaction_results[t]
       /\ transaction_results' # transaction_results =>
             \E r \in RequestIds :
                 /\ Answers(r) /\ WellFormed(r) /\ Authenticated(r)
                 /\ Txn(r) \notin DOMAIN transaction_results
                 /\ DOMAIN transaction_results' =
                        DOMAIN transaction_results \cup {Txn(r)}
       /\ \A r \in RequestIds :
             (/\ Answers(r)
              /\ \/ requests[r].path \in {"/ping", "/products"}
                 \/ WellFormed(r) /\ Txn(r) \in DOMAIN transaction_results) =>
                 transaction_results' = transaction_results]_vars

(* a failed and a confirmed entry side by side: the second purchase kept   *)
(* the entry of the first                                                  *)
C18_Witness ==
    /\ DOMAIN transaction_results = {"t1", "t2"}
    /\ transaction_results["t1"].status = "failed"
    /\ transaction_results["t2"].status = "confirmed"
    /\ \A r \in RequestIds : PurchaseAnswered(r)

(* C19: well-formedness of cached results.  Every entry of the             *)
(* Transaction Cache is either confirmed with message "Booking confirmed"  *)
(* and a confirmation_id "MOCK-..." or failed with confirmation_id "" and  *)
(* message "Purchase rejected" or "Unknown SKU: <sku>"; under              *)
(* FAIL_PURCHASE no entry is confirmed, without it no entry says           *)
(* "Purchase rejected".                                                     *)
RequestSkus == {b.sku.value : b \in WellFormedBodies}

C19_CachedResultsWellFormed ==
    \A t \in DOMAIN transaction_results :
        LET e == transaction_results[t]
        IN  /\ DOMAIN e = {"confirmation_id", "status", "message"}
            /\ \/ /\ e.status = "confirmed"
                  /\ e.message = "Booking confirmed"
                  /\ e.confirmation_id \in {"MOCK-" \o u : u \in Uuids}
               \/ /\ e.status = "failed"
                  /\ e.confirmation_id = ""
                  /\ \/ e.message = "Purchase rejected"
                     \/ e.message \in {"Unknown SKU: " \o sku : sku \in RequestSkus}
            /\ FAIL_PURCHASE => e.status # "confirmed"
            /\ ~FAIL_PURCHASE => e.message # "Purchase rejected"

(* under the toggle both transaction_ids are cached as rejected *)
C19_Witness ==
    /\ FAIL_PURCHASE
    /\ DOMAIN transaction_results = {"t1", "t2"}
    /\ \A t \in TransactionIds : transaction_results[t] = RejectedResult

(* ------------------------- fair scheduling ----------------------------- *)

(* the route handling call_next reaches for request r *)
Handle(r) ==
    \/ Ping(r) \/ ListProducts(r) \/ RequestValidationError(r) \/ Purchase(r)

(* the event loop runs every task that is ready: a sleep that is over      *)
(* returns, and a request handed to call_next gets its endpoint run        *)
FairSpec ==
    /\ Init /\ [][Next]_vars
    /\ \A r \in RequestIds : WF_vars(DelayDone(r)) /\ WF_vars(Handle(r))

(* C20: every request is eventually answered.  Under fair scheduling a     *)
(* request that was accepted, delayed or not, with or without a valid key, *)
(* is eventually answered, and once answered its response stays as it is.   *)
C20_EventuallyAnswered ==
    /\ \A r \in RequestIds :
          (requests[r].pc \in {"sleeping", "call_next"}) ~> Done(r)
    /\ [][\A r \in RequestIds : Done(r) => requests'[r] = requests[r]]_vars

(* under a delay every request has been answered, one of them with 401 *)
C20_Witness ==
    /\ RESPONSE_DELAY_MS > 0
    /\ \A r \in RequestIds : Done(r) /\ requests[r].response # None
    /\ \E r \in RequestIds : ~Authenticated(r) /\ StatusCode(r) = 401
    /\ \E r \in RequestIds : requests[r].steps[1] = "delay" /\ StatusCode(r) = 200

====
